---------------------------- MODULE Spec2Model ----------------------------
(***************************************************************************)
(* Model of flamingo_analysis.py: main() constructs FlamingoAnalytics on   *)
(* a CSV file (load_data) and calls run_full_analysis, which invokes the   *)
(* seven analysis steps in a fixed order.  The process may then be started *)
(* again on the same input and the same outputs directory.                 *)
(*                                                                         *)
(* Numbers are IEEE-like values over exact rationals: [n, d] with d > 0 is *)
(* the finite value n/d in lowest terms, d = 0 is +inf (n = 1), -inf       *)
(* (n = -1) or NaN (n = 0).  Rounding of binary floating point is not      *)
(* modelled.  A missing cell of a text column is the marker NA; a missing  *)
(* cell of a numeric column is NaN, as read_csv produces them.             *)
(*                                                                         *)
(* A step raises where the source indexes a column that the table does not *)
(* have (KeyError) and where load_data re-raises; calls into pandas, scipy *)
(* and matplotlib on columns that are present are taken to return.         *)
(***************************************************************************)
EXTENDS Integers, Sequences, FiniteSets, TLC

MaxRows == 2
MaxRuns == 2

VARIABLES csv, outputsDir, files, run, pc, err, df, loads,
          calls, blocks, writes, printed, prev

vars == <<csv, outputsDir, files, run, pc, err, df, loads,
          calls, blocks, writes, printed, prev>>

-----------------------------------------------------------------------------
(* Floating-point values                                                   *)

Sign(n) == IF n > 0 THEN 1 ELSE IF n < 0 THEN -1 ELSE 0

Abs(n) == IF n < 0 THEN -n ELSE n

RECURSIVE GCD(_, _)
GCD(a, b) == IF b = 0 THEN a ELSE GCD(b, a % b)

Float(n, d) ==
    IF d = 0 THEN [n |-> Sign(n), d |-> 0]
    ELSE LET g == GCD(Abs(n), Abs(d))
         IN  [n |-> (Sign(d) * n) \div g, d |-> Abs(d) \div g]

Num(i) == [n |-> i, d |-> 1]

NaN == [n |-> 0, d |-> 0]

IsNaN(x) == x.d = 0 /\ x.n = 0

IsFinite(x) == x.d # 0

FNeg(x) == [n |-> -x.n, d |-> x.d]

FAdd(a, b) ==
    IF IsNaN(a) \/ IsNaN(b) THEN NaN
    ELSE IF ~IsFinite(a) /\ ~IsFinite(b) THEN (IF a.n = b.n THEN a ELSE NaN)
    ELSE IF ~IsFinite(a) THEN a
    ELSE IF ~IsFinite(b) THEN b
    ELSE Float(a.n * b.d + b.n * a.d, a.d * b.d)

FSub(a, b) == FAdd(a, FNeg(b))

FMul(a, b) ==
    IF IsNaN(a) \/ IsNaN(b) THEN NaN
    ELSE IF ~IsFinite(a) \/ ~IsFinite(b)
         THEN Float(Sign(a.n) * Sign(b.n), 0)
    ELSE Float(a.n * b.n, a.d * b.d)

FDiv(a, b) ==
    IF IsNaN(a) \/ IsNaN(b) THEN NaN
    ELSE IF ~IsFinite(b) THEN (IF IsFinite(a) THEN Num(0) ELSE NaN)
    ELSE IF b.n = 0 THEN Float(Sign(a.n), 0)
    ELSE IF ~IsFinite(a) THEN Float(Sign(a.n) * Sign(b.n), 0)
    ELSE Float(a.n * b.d, a.d * b.n)

FGeq(a, b) == a.n * b.d >= b.n * a.d

\* Series.sum(): missing values are skipped, the empty sum is 0.
RECURSIVE Sum(_)
Sum(s) ==
    IF s = <<>> THEN Num(0)
    ELSE IF IsNaN(Head(s)) THEN Sum(Tail(s))
    ELSE FAdd(Head(s), Sum(Tail(s)))

DropNa(s) == SelectSeq(s, LAMBDA x : ~IsNaN(x))

\* Series.mean(): the sum over the count of the values that are not missing.
Mean(s) == FDiv(Sum(s), Num(Len(DropNa(s))))

-----------------------------------------------------------------------------
(* The table                                                               *)

NA == "<NA>"

ExpectedColumns ==
    <<"species", "region", "habitat_type", "conservation_status",
      "population_2020", "population_2023">>

HasColumn(d, c) == \E i \in 1..Len(d.columns) : d.columns[i] = c

Column(d, c) == [i \in 1..Len(d.data) |-> d.data[i][c]]

NoTable == [columns |-> <<>>, data |-> <<>>]

NumericColumns == {"population_2020", "population_2023", "growth_rate"}

\* isnull(): the cell of column c holds no value.
IsNull(c, v) == IF c \in NumericColumns THEN IsNaN(v) ELSE v = NA

\* A faulty variant of SetItem: the rows whose new value is missing are dropped.
SetItemDropNa(d, c, values) ==
    LET keep == {i \in 1..Len(d.data) : ~IsNaN(values[i])}
        nth(j) == CHOOSE i \in keep : Cardinality({h \in keep : h < i}) = j - 1
    IN  [columns |-> IF HasColumn(d, c) THEN d.columns ELSE Append(d.columns, c),
         data    |-> [j \in 1..Cardinality(keep) |->
                        [k \in (DOMAIN d.data[nth(j)]) \cup {c} |->
                            IF k = c THEN values[nth(j)] ELSE d.data[nth(j)][k]]]]

\* A faulty variant of SetItem: a new column is inserted as the first column.
SetItemFirst(d, c, values) ==
    [columns |-> IF HasColumn(d, c) THEN d.columns ELSE <<c>> \o d.columns,
     data    |-> [i \in 1..Len(d.data) |->
                    [k \in (DOMAIN d.data[i]) \cup {c} |->
                        IF k = c THEN values[i] ELSE d.data[i][k]]]]

\* df[c] = values: an existing column is overwritten in place, a new one is
\* appended as the last column; rows and the other columns are kept.
SetItem(d, c, values) ==
    [columns |-> IF HasColumn(d, c) THEN d.columns ELSE Append(d.columns, c),
     data    |-> [i \in 1..Len(d.data) |->
                    [k \in (DOMAIN d.data[i]) \cup {c} |->
                        IF k = c THEN values[i] ELSE d.data[i][k]]]]


\* The orders in which sort_values(ascending=False) can leave the lines of S:
\* descending by weight, lines that tie in either order.
Orderings(S, weight) ==
    {o \in [1..Cardinality(S) -> S] :
        /\ \A i, j \in 1..Cardinality(S) : i # j => o[i] # o[j]
        /\ \A i, j \in 1..Cardinality(S) :
              i < j => FGeq(weight[o[i]], weight[o[j]])}

\* df.groupby(key)[value].sum(): one group per distinct key that is not
\* missing, the sum of a group skips missing values.
GroupSums(d, key, value) ==
    {[key |-> k,
      pop |-> Sum(Column([d EXCEPT !.data =
                  SelectSeq(d.data, LAMBDA r : r[key] = k)], value))] :
        k \in {d.data[i][key] : i \in 1..Len(d.data)} \ {NA}}

\* A faulty variant of Percentage: the fraction is not scaled to percent.
Fraction(part, whole) == FDiv(part, whole)

Percentage(part, whole) == FMul(FDiv(part, whole), Num(100))

\* The lines of a population breakdown, for one order of the groups.
BreakdownLines(o) ==
    LET total == Sum([i \in 1..Len(o) |-> o[i].pop])
    IN  [i \in 1..Len(o) |->
            [key |-> o[i].key, pop |-> o[i].pop,
             percentage |-> Percentage(o[i].pop, total)]]

Breakdowns(d, key) ==
    LET groups == GroupSums(d, key, "population_2023")
    IN  {BreakdownLines(o) : o \in Orderings(groups, [g \in groups |-> g.pop])}

\* A faulty variant of ValueCounts: missing values are counted as a value of their own.
ValueCountsKeepNa(d, c) ==
    LET values == {[key |-> k,
                    count |-> Cardinality({i \in 1..Len(d.data) : d.data[i][c] = k})] :
                      k \in {d.data[i][c] : i \in 1..Len(d.data)}}
    IN  Orderings(values, [v \in values |-> Num(v.count)])

\* df[c].value_counts(): the number of rows per distinct value, missing
\* values dropped, most frequent first.
ValueCounts(d, c) ==
    LET values == {[key |-> k,
                    count |-> Cardinality({i \in 1..Len(d.data) : d.data[i][c] = k})] :
                      k \in {d.data[i][c] : i \in 1..Len(d.data)} \ {NA}}
    IN  Orderings(values, [v \in values |-> Num(v.count)])

HabitatLines(d, o) ==
    [i \in 1..Len(o) |->
        [key |-> o[i].key, count |-> o[i].count,
         percentage |-> Percentage(Num(o[i].count), Num(Len(d.data)))]]

\* A faulty variant of GrowthRate: the change is divided by the 2023 population.
GrowthRateOverNew(p2020, p2023) == FMul(FDiv(FSub(p2023, p2020), p2023), Num(100))

GrowthRate(p2020, p2023) == FMul(FDiv(FSub(p2023, p2020), p2020), Num(100))

GrowthRateColumn(d) ==
    [i \in 1..Len(d.data) |->
        GrowthRate(d.data[i]["population_2020"], d.data[i]["population_2023"])]

HasPopulations(d) ==
    HasColumn(d, "population_2020") /\ HasColumn(d, "population_2023")

\* The summary lines of the growth-rate block.
GrowthSummary(d) ==
    LET total_2020 == Sum(Column(d, "population_2020"))
        total_2023 == Sum(Column(d, "population_2023"))
    IN  <<Mean(Column(d, "growth_rate")), total_2020, total_2023,
          Percentage(FSub(total_2023, total_2020), total_2020)>>

-----------------------------------------------------------------------------
(* Files                                                                   *)

SpeciesChart == "outputs/species_distribution.png"

GrowthChart == "outputs/growth_rates.png"

ReportFile == "outputs/analysis_report.txt"

OutputFiles == {SpeciesChart, GrowthChart, ReportFile}

NoFiles == [f \in {} |-> <<>>]

\* open(name, 'w') / savefig(name): the file is created or replaced.
WriteFile(fs, name, content) ==
    [f \in (DOMAIN fs) \cup {name} |-> IF f = name THEN content ELSE fs[f]]

Chart(title) == <<"PNG", title>>

\* A faulty variant of ReportLines: the number of columns is written as the record count.
ReportLinesOfColumns(d) ==
    <<"======================================================================",
      "FLAMINGO POPULATION DATA ANALYTICS REPORT",
      "======================================================================",
      "",
      "PROJECT OVERVIEW",
      "----------------------------------------------------------------------",
      "This report contains a comprehensive analysis of global flamingo",
      "populations, including demographic trends, geographic distribution,",
      "and conservation status assessment.",
      "",
      "KEY STATISTICS",
      "----------------------------------------------------------------------",
      "Total Records Analyzed: " \o ToString(Len(d.columns)),
      "Date Generated: December 2025",
      "Analysis Period: 2020-2023",
      "",
      "For detailed analysis, see the main README.md file.">>

ReportLines(d) ==
    <<"======================================================================",
      "FLAMINGO POPULATION DATA ANALYTICS REPORT",
      "======================================================================",
      "",
      "PROJECT OVERVIEW",
      "----------------------------------------------------------------------",
      "This report contains a comprehensive analysis of global flamingo",
      "populations, including demographic trends, geographic distribution,",
      "and conservation status assessment.",
      "",
      "KEY STATISTICS",
      "----------------------------------------------------------------------",
      "Total Records Analyzed: " \o ToString(Len(d.data)),
      "Date Generated: December 2025",
      "Analysis Period: 2020-2023",
      "",
      "For detailed analysis, see the main README.md file.">>

ShowsSpeciesChart(d) == HasColumn(d, "species")

\* A faulty variant of ShowsGrowthChart: the chart is guarded on species alone.
ShowsGrowthChartUnguarded(d) == HasColumn(d, "species")

ShowsGrowthChart(d) == HasColumn(d, "growth_rate") /\ HasColumn(d, "species")

-----------------------------------------------------------------------------
(* Inputs                                                                  *)

AllColumns == ExpectedColumns \o <<"growth_rate">>

Row(species, region, habitat, status, p2020, p2023, growth) ==
    [species |-> species, region |-> region, habitat_type |-> habitat,
     conservation_status |-> status, population_2020 |-> p2020,
     population_2023 |-> p2023, growth_rate |-> growth]

Records ==
    {Row("Greater", "Africa", "Lake", "LC", Num(100), Num(150), Num(7)),
     Row("Lesser", "Asia", NA, "NT", Num(200), Num(180), NaN),
     Row("Greater", "Africa", "Lagoon", "LC", Num(0), Num(0), Num(7)),
     Row(NA, NA, "Lake", NA, Num(0), NaN, Num(7))}

RowSeqs == UNION {[1..n -> Records] : n \in 0..MaxRows}

\* The table read from a file with the columns S (in file order) and the
\* given records.
Table(S, rows) ==
    [columns |-> SelectSeq(AllColumns, LAMBDA c : c \in S),
     data    |-> [i \in 1..Len(rows) |-> [c \in S |-> rows[i][c]]]]

CsvFiles ==
    {[kind |-> "missing", table |-> NoTable],
     [kind |-> "unreadable", table |-> NoTable]}
    \cup {[kind |-> "csv", table |-> Table(S, rows)] :
            S \in SUBSET {AllColumns[i] : i \in 1..Len(AllColumns)},
            rows \in RowSeqs}

\* What an earlier run on other data left in the outputs directory.
StaleFiles ==
    [f \in OutputFiles |->
        IF f = ReportFile
        THEN ReportLines([NoTable EXCEPT !.data = [i \in 1..(MaxRows + 1) |-> <<>>]])
        ELSE Chart(f)]

NothingPrinted ==
    [shape |-> <<>>, nulls |-> <<>>, growth |-> <<>>, species |-> <<>>,
     region |-> <<>>, habitat |-> <<>>, conservation |-> <<>>, stats |-> <<>>]

-----------------------------------------------------------------------------
(* The program                                                             *)

\* The steps of run_full_analysis, in the order of its calls.
Pipeline ==
    <<"exploratory_analysis", "population_analysis", "geographic_analysis",
      "conservation_status_analysis", "statistical_tests",
      "generate_visualizations", "generate_report">>

Position(step) == CHOOSE i \in 1..Len(Pipeline) : Pipeline[i] = step

\* A faulty variant of After: generate_visualizations is not called.
AfterWithoutCharts(step) ==
    IF Position(step) = Len(Pipeline) THEN "done"
    ELSE IF Pipeline[Position(step) + 1] = "generate_visualizations"
    THEN Pipeline[Position(step) + 2]
    ELSE Pipeline[Position(step) + 1]

\* Where control is after `step` returns.
After(step) ==
    IF Position(step) = Len(Pipeline) THEN "done"
    ELSE Pipeline[Position(step) + 1]

Init ==
    /\ csv \in CsvFiles
    /\ \/ outputsDir = FALSE /\ files = NoFiles
       \/ outputsDir = TRUE /\ files = StaleFiles
    /\ run = 1
    /\ pc = "load_data"
    /\ err = ""
    /\ df = NoTable
    /\ loads = 0
    /\ calls = <<>>
    /\ blocks = {}
    /\ writes = <<>>
    /\ printed = NothingPrinted
    /\ prev = [wrote |-> FALSE, report |-> <<>>]

\* A step is entered: run_full_analysis has called it.
Enter(step) ==
    /\ pc = step
    /\ calls' = Append(calls, step)

Return(step) ==
    /\ pc' = After(step)
    /\ err' = err

\* An exception leaves the step and, uncaught, run_full_analysis and main.
Raise(exception) ==
    /\ pc' = "raised"
    /\ err' = exception

\* A faulty variant of ReadCsv: a missing file is read as an empty table.
ReadCsvOrEmpty(file) ==
    CASE file.kind = "unreadable" -> [raises |-> "Exception", table |-> NoTable]
      [] OTHER                    -> [raises |-> "", table |-> file.table]

\* What read_csv does with the file: the table, or the exception.
ReadCsv(file) ==
    CASE file.kind = "missing"    -> [raises |-> "FileNotFoundError", table |-> NoTable]
      [] file.kind = "unreadable" -> [raises |-> "Exception", table |-> NoTable]
      [] OTHER                    -> [raises |-> "", table |-> file.table]

\* FlamingoAnalytics.__init__ and load_data, called from main.
LoadData ==
    /\ pc = "load_data"
    /\ loads' = loads + 1
    /\ LET read == ReadCsv(csv)
       IN  IF read.raises = ""
           THEN /\ df' = read.table
                /\ pc' = Pipeline[1]
                /\ err' = err
           ELSE /\ df' = df
                /\ Raise(read.raises)
    /\ UNCHANGED <<csv, outputsDir, files, run, calls, blocks, writes, printed, prev>>

ExploratoryAnalysis ==
    /\ Enter("exploratory_analysis")
    /\ printed' = [printed EXCEPT
            !.shape = <<Len(df.data), Len(df.columns)>>,
            !.nulls = [i \in 1..Len(df.columns) |->
                         Cardinality({r \in 1..Len(df.data) :
                             IsNull(df.columns[i], df.data[r][df.columns[i]])})]]
    /\ Return("exploratory_analysis")
    /\ UNCHANGED <<csv, outputsDir, files, run, df, loads, blocks, writes, prev>>

PopulationAnalysis ==
    /\ Enter("population_analysis")
    /\ LET grown == IF HasPopulations(df)
                    THEN SetItem(df, "growth_rate", GrowthRateColumn(df))
                    ELSE df
           done  == IF HasPopulations(df) THEN blocks \cup {"growth_rate"} ELSE blocks
           shown == IF HasPopulations(df)
                    THEN [printed EXCEPT !.growth = GrowthSummary(grown)]
                    ELSE printed
       IN  /\ df' = grown
           /\ IF HasColumn(df, "species") /\ ~HasColumn(df, "population_2023")
              THEN /\ Raise("KeyError")
                   /\ blocks' = done
                   /\ printed' = shown
              ELSE IF HasColumn(df, "species")
              THEN /\ \E lines \in Breakdowns(grown, "species") :
                        printed' = [shown EXCEPT !.species = lines]
                   /\ blocks' = done \cup {"species"}
                   /\ Return("population_analysis")
              ELSE /\ printed' = shown
                   /\ blocks' = done
                   /\ Return("population_analysis")
    /\ UNCHANGED <<csv, outputsDir, files, run, loads, writes, prev>>

GeographicAnalysis ==
    /\ Enter("geographic_analysis")
    /\ IF HasColumn(df, "region") /\ ~HasColumn(df, "population_2023")
       THEN /\ Raise("KeyError")
            /\ UNCHANGED <<blocks, printed>>
       ELSE /\ \E lines \in (IF HasColumn(df, "region")
                             THEN Breakdowns(df, "region") ELSE {<<>>}) :
                 \E counts \in (IF HasColumn(df, "habitat_type")
                                THEN ValueCounts(df, "habitat_type") ELSE {<<>>}) :
                    printed' = [printed EXCEPT
                        !.region = lines,
                        !.habitat = HabitatLines(df, counts)]
            /\ blocks' = blocks
                 \cup (IF HasColumn(df, "region") THEN {"region"} ELSE {})
                 \cup (IF HasColumn(df, "habitat_type") THEN {"habitat_type"} ELSE {})
            /\ Return("geographic_analysis")
    /\ UNCHANGED <<csv, outputsDir, files, run, df, loads, writes, prev>>

ConservationStatusAnalysis ==
    /\ Enter("conservation_status_analysis")
    /\ IF HasColumn(df, "conservation_status")
       THEN /\ \E counts \in ValueCounts(df, "conservation_status") :
                 printed' = [printed EXCEPT !.conservation = counts]
            /\ blocks' = blocks \cup {"conservation_status"}
       ELSE UNCHANGED <<blocks, printed>>
    /\ Return("conservation_status_analysis")
    /\ UNCHANGED <<csv, outputsDir, files, run, df, loads, writes, prev>>

StatisticalTests ==
    /\ Enter("statistical_tests")
    /\ IF HasColumn(df, "population_2023")
       THEN LET pop_data == DropNa(Column(df, "population_2023"))
            IN  /\ printed' = [printed EXCEPT
                        !.stats = <<Len(pop_data), Mean(pop_data)>>]
                /\ blocks' = blocks \cup {"statistics"}
       ELSE UNCHANGED <<blocks, printed>>
    /\ Return("statistical_tests")
    /\ UNCHANGED <<csv, outputsDir, files, run, df, loads, writes, prev>>

GenerateVisualizations ==
    /\ Enter("generate_visualizations")
    /\ outputsDir' = TRUE
    /\ IF ShowsSpeciesChart(df) /\ ~HasColumn(df, "population_2023")
       THEN /\ Raise("KeyError")
            /\ UNCHANGED <<files, writes, blocks>>
       ELSE LET first  == IF ShowsSpeciesChart(df) THEN <<SpeciesChart>> ELSE <<>>
                second == IF ShowsGrowthChart(df) THEN <<GrowthChart>> ELSE <<>>
                saved  == first \o second
                fs1    == IF ShowsSpeciesChart(df)
                          THEN WriteFile(files, SpeciesChart, Chart(SpeciesChart))
                          ELSE files
            IN  /\ files' = IF ShowsGrowthChart(df)
                            THEN WriteFile(fs1, GrowthChart, Chart(GrowthChart))
                            ELSE fs1
                /\ writes' = writes \o saved
                /\ blocks' = blocks \cup {saved[i] : i \in 1..Len(saved)}
                /\ Return("generate_visualizations")
    /\ UNCHANGED <<csv, run, df, loads, printed, prev>>

GenerateReport ==
    /\ Enter("generate_report")
    /\ IF outputsDir
       THEN /\ files' = WriteFile(files, ReportFile, ReportLines(df))
            /\ writes' = Append(writes, ReportFile)
            /\ Return("generate_report")
       ELSE /\ Raise("FileNotFoundError")
            /\ UNCHANGED <<files, writes>>
    /\ UNCHANGED <<csv, outputsDir, run, df, loads, blocks, printed, prev>>

\* The script is started again: a new process, the same input file and the
\* outputs directory as the last run left it.
Rerun ==
    /\ pc \in {"done", "raised"}
    /\ run < MaxRuns
    /\ run' = run + 1
    /\ pc' = "load_data"
    /\ err' = ""
    /\ df' = NoTable
    /\ loads' = 0
    /\ calls' = <<>>
    /\ blocks' = {}
    /\ writes' = <<>>
    /\ printed' = NothingPrinted
    /\ prev' = [wrote  |-> \E i \in 1..Len(writes) : writes[i] = ReportFile,
                report |-> IF ReportFile \in DOMAIN files THEN files[ReportFile] ELSE <<>>]
    /\ UNCHANGED <<csv, outputsDir, files>>

Next ==
    \/ LoadData
    \/ ExploratoryAnalysis
    \/ PopulationAnalysis
    \/ GeographicAnalysis
    \/ ConservationStatusAnalysis
    \/ StatisticalTests
    \/ GenerateVisualizations
    \/ GenerateReport
    \/ Rerun

Spec == Init /\ [][Next]_vars

-----------------------------------------------------------------------------
(* Properties                                                              *)

Loaded == csv.kind = "csv" /\ pc # "load_data"

Wrote(f) == \E i \in 1..Len(writes) : writes[i] = f

Called(step) == \E i \in 1..Len(calls) : calls[i] = step

InputHas(c) == HasColumn(csv.table, c)

\* The sum of a sequence of values, added one after the other.
RECURSIVE Total(_)
Total(s) == IF s = <<>> THEN Num(0) ELSE FAdd(Head(s), Total(Tail(s)))

Percentages(lines) == [i \in 1..Len(lines) |-> lines[i].percentage]

GroupTotal(lines) == Sum([i \in 1..Len(lines) |-> lines[i].pop])

RECURSIVE CountTotal(_)
CountTotal(lines) ==
    IF lines = <<>> THEN 0 ELSE Head(lines).count + CountTotal(Tail(lines))

RowsWith(d, c) == {i \in 1..Len(d.data) : ~IsNull(c, d.data[i][c])}

\* C1: whatever columns the input has, no analysis step raises: once the
\* data is loaded the run never ends in an exception.
C1_NoStepRaises == ~(pc = "raised" /\ calls # <<>>)

\* C2: with the input file missing, construction raises the file-not-found
\* condition after a single load attempt, no step is called and the outputs
\* directory is as it was when the process started: no file is written.
C2_MissingFileRaises ==
    (csv.kind = "missing" /\ pc # "load_data") =>
        /\ pc = "raised" /\ err = "FileNotFoundError"
        /\ loads = 1
        /\ calls = <<>> /\ writes = <<>>
        /\ <<outputsDir, files>> \in {<<FALSE, NoFiles>>, <<TRUE, StaleFiles>>}

C2_Witness == csv.kind = "missing" /\ pc = "raised" /\ run = 1

\* C3: once population_analysis has computed growth_rate, every row with
\* integer populations and population_2020 nonzero has a finite growth_rate g
\* with g * population_2020 = (population_2023 - population_2020) * 100.
C3_GrowthRateFormula ==
    "growth_rate" \in blocks =>
        \A i \in 1..Len(df.data) :
            LET p2020 == df.data[i]["population_2020"]
                p2023 == df.data[i]["population_2023"]
                g     == df.data[i]["growth_rate"]
            IN  (p2020.d = 1 /\ p2023.d = 1 /\ p2020.n # 0) =>
                    /\ IsFinite(g)
                    /\ g.n * p2020.n = (p2023.n - p2020.n) * 100 * g.d

C3_Witness ==
    /\ "growth_rate" \in blocks
    /\ \E i \in 1..Len(df.data) :
          /\ df.data[i]["population_2020"] = Num(200)
          /\ df.data[i]["population_2023"] = Num(180)
          /\ df.data[i]["growth_rate"] = Num(-10)

\* C4 as stated: the habitat counts printed by geographic_analysis sum to the
\* number of rows of the table.
C4_CountsSumToRows ==
    "habitat_type" \in blocks => CountTotal(printed.habitat) = Len(df.data)

\* C4 as amended: the habitat counts printed by geographic_analysis sum to the
\* number of rows whose habitat_type is not missing.
C4_CountsSumToKnownRows ==
    "habitat_type" \in blocks =>
        CountTotal(printed.habitat) = Cardinality(RowsWith(df, "habitat_type"))

C4_Witness ==
    /\ "habitat_type" \in blocks
    /\ Len(printed.habitat) = 1
    /\ Cardinality(RowsWith(df, "habitat_type")) = 1
    /\ Len(df.data) = 2

\* C5 as stated: whenever a species or region breakdown is printed with at
\* least one group, its percentages sum to 100, a total of zero included.
C5_PercentagesSumTo100 ==
    /\ ("species" \in blocks /\ printed.species # <<>>)
          => Total(Percentages(printed.species)) = Num(100)
    /\ ("region" \in blocks /\ printed.region # <<>>)
          => Total(Percentages(printed.region)) = Num(100)

\* C5 as amended: whenever a species or region breakdown is printed and the
\* 2023 population summed over its groups is not zero, its percentages sum
\* to 100.
C5_PercentagesSumTo100IfNonzero ==
    /\ ("species" \in blocks /\ GroupTotal(printed.species) # Num(0))
          => Total(Percentages(printed.species)) = Num(100)
    /\ ("region" \in blocks /\ GroupTotal(printed.region) # Num(0))
          => Total(Percentages(printed.region)) = Num(100)

C5_Witness ==
    /\ "species" \in blocks /\ "region" \in blocks
    /\ Len(printed.species) = 2 /\ Len(printed.region) = 2
    /\ GroupTotal(printed.species) = Num(330)
    /\ \E i \in 1..2 : printed.species[i].percentage = Float(500, 11)

\* C6 as stated: the data is loaded once, and every column of the input
\* holds, in every row, the value it was loaded with.
C6_InputColumnsKept ==
    Loaded =>
        /\ loads = 1
        /\ Len(df.data) = Len(csv.table.data)
        /\ \A k \in 1..Len(csv.table.columns) :
              Column(df, csv.table.columns[k])
                  = Column(csv.table, csv.table.columns[k])

\* C6 as amended: the data is loaded once, and every column of the input
\* other than one named growth_rate holds, in every row, the value it was
\* loaded with; an input column named growth_rate does so until
\* population_analysis computes the growth rate.
C6_InputColumnsKeptButGrowthRate ==
    Loaded =>
        /\ loads = 1
        /\ Len(df.data) = Len(csv.table.data)
        /\ \A k \in 1..Len(csv.table.columns) :
              (csv.table.columns[k] # "growth_rate" \/ "growth_rate" \notin blocks)
                  => Column(df, csv.table.columns[k])
                        = Column(csv.table, csv.table.columns[k])

C6_Witness ==
    /\ Loaded /\ pc = "done"
    /\ InputHas("growth_rate") /\ "growth_rate" \in blocks
    /\ Column(df, "growth_rate") # Column(csv.table, "growth_rate")
    /\ Column(df, "population_2023") = Column(csv.table, "population_2023")
    /\ Len(df.data) = MaxRows

\* C7: run_full_analysis calls the seven steps in the order of Pipeline, each
\* once and none skipped; after a step raises nothing more is called or
\* written in that run; a file in the outputs directory is never removed.
C7_PipelineOrder ==
    [][/\ (calls' # calls /\ run' = run)
            => /\ Len(calls) < Len(Pipeline)
               /\ calls' = Append(calls, Pipeline[Len(calls) + 1])
       /\ pc' = "done" => calls' = Pipeline
       /\ (pc = "raised" /\ run' = run)
            => /\ calls' = calls /\ writes' = writes /\ files' = files
       /\ (Wrote(ReportFile)' => Called("generate_report")')
       /\ ((Wrote(SpeciesChart)' \/ Wrote(GrowthChart)')
            => Called("generate_visualizations")')
       /\ \A f \in DOMAIN files : f \in DOMAIN files'
      ]_vars

C7_Witness ==
    /\ pc = "raised" /\ err = "KeyError"
    /\ calls = SubSeq(Pipeline, 1, 3)
    /\ writes = <<>>
    /\ files = StaleFiles

\* C8 as stated: growth_rates.png is written only if population_analysis
\* computed growth_rate earlier in the run and species is present;
\* species_distribution.png is written only if species is present.
C8_GrowthChartAfterGrowthRate ==
    /\ Wrote(GrowthChart) =>
          /\ "growth_rate" \in blocks
          /\ HasColumn(df, "species")
    /\ Wrote(SpeciesChart) => HasColumn(df, "species")

\* C8 as amended: growth_rates.png is written only if the table has a
\* growth_rate column, computed by population_analysis earlier in the run or
\* read from the input, and species is present; species_distribution.png is
\* written only if species is present.
C8_GrowthChartNeedsGrowthRate ==
    /\ Wrote(GrowthChart) =>
          /\ "growth_rate" \in blocks \/ InputHas("growth_rate")
          /\ HasColumn(df, "growth_rate")
          /\ HasColumn(df, "species")
    /\ Wrote(SpeciesChart) => HasColumn(df, "species")

C8_Witness ==
    /\ Wrote(GrowthChart) /\ Wrote(SpeciesChart)
    /\ "growth_rate" \in blocks
    /\ ~InputHas("growth_rate")

\* C9: a report written in a run is the fixed text with the number of rows
\* of the input as its only variable part, whatever was in the file before,
\* and it equals the report the previous run wrote.
C9_ReportDependsOnRowCount ==
    Wrote(ReportFile) =>
        /\ files[ReportFile] =
              ReportLines([columns |-> <<>>,
                           data |-> [i \in 1..Len(csv.table.data) |-> <<>>]])
        /\ files[ReportFile][13] =
              "Total Records Analyzed: " \o ToString(Len(csv.table.data))
        /\ prev.wrote => files[ReportFile] = prev.report

C9_Witness ==
    /\ run = 2 /\ prev.wrote
    /\ Wrote(ReportFile)
    /\ "growth_rate" \in blocks
    /\ Len(csv.table.data) = 1

\* C10 as stated: a step other than population_analysis leaves the table as
\* it is; population_analysis leaves it as it is, or appends growth_rate as a
\* new last column and changes nothing else; it leaves the table as it is
\* when population_2020 or population_2023 is absent.
C10_OnlyAddsGrowthRate ==
    [][(calls' # calls /\ run' = run) =>
          IF pc = "population_analysis"
          THEN \/ df' = df
               \/ /\ HasPopulations(df)
                  /\ ~HasColumn(df, "growth_rate")
                  /\ df'.columns = Append(df.columns, "growth_rate")
                  /\ Len(df'.data) = Len(df.data)
                  /\ \A k \in 1..Len(df.columns) :
                        Column(df', df.columns[k]) = Column(df, df.columns[k])
          ELSE df' = df
      ]_vars

\* C10 as amended: a step other than population_analysis leaves the table as
\* it is; population_analysis changes nothing but the growth_rate column,
\* which it appends as a new last column or, when the table already has one,
\* overwrites in place; rows, the other columns and the column order are
\* kept, and the table is left as it is when population_2020 or
\* population_2023 is absent.
C10_OnlySetsGrowthRate ==
    [][(calls' # calls /\ run' = run) =>
          IF pc = "population_analysis"
          THEN /\ ~HasPopulations(df) => df' = df
               /\ df'.columns = IF HasColumn(df, "growth_rate") \/ ~HasPopulations(df)
                                THEN df.columns
                                ELSE Append(df.columns, "growth_rate")
               /\ Len(df'.data) = Len(df.data)
               /\ \A k \in 1..Len(df.columns) :
                     df.columns[k] # "growth_rate"
                        => Column(df', df.columns[k]) = Column(df, df.columns[k])
          ELSE df' = df
      ]_vars

C10_Witness ==
    /\ Called("population_analysis") /\ pc = "geographic_analysis"
    /\ ~InputHas("growth_rate")
    /\ df.columns = Append(csv.table.columns, "growth_rate")
    /\ Len(df.columns) = Len(AllColumns)
    /\ Len(df.data) = MaxRows

=============================================================================
